---- MODULE Spec2Model ----
(***************************************************************************)
(* Duty-cycle orchestrator of the temperature/humidity node                *)
(* (chapter6/main.py): run(), run_cycle() and the steps they call, with    *)
(* the toggle pins, the station interface and the step outcomes as the     *)
(* environment.                                                            *)
(***************************************************************************)
EXTENDS Integers, Sequences, FiniteSets

VARIABLES
    config,              \* the config module: DEEP_SLEEP, LOG_INTERVAL, FAHRENHEIT, and whether SEND_DATA_TO_CLOUD_PIN is defined
    pc,                  \* position of the single thread of control
    debug_pin,           \* electrical level of config.DEBUG_PIN (0 = tied to GND)
    cloud_pin,           \* electrical level of config.SEND_DATA_TO_CLOUD_PIN
    sta_connected,       \* sta_if.isconnected()
    led_top,             \* level last written to config.LED_TOP_PIN
    led_writes,          \* levels written to config.LED_TOP_PIN by the last blink_led call, in order
    led_bottom,          \* level last written to the bottom LED pin (D0; chapter3 and chapter4 only)
    reset_cause,         \* machine.reset_cause() (read by chapter4 only)
    send_data_to_cloud,  \* run_cycle's local snapshot of the cloud toggle
    temperature,         \* run_cycle's local
    humidity,            \* run_cycle's local
    exc,                 \* the exception travelling to run_cycle's except clause ("none" when there is none)
    steps,               \* steps attempted in the current cycle, in order
    blinks,              \* blink_led calls of the current cycle, in order
    polls,               \* unsuccessful isconnected() polls of the wait loop in the current cycle
    cfg_reads,           \* calls of should_send_data_to_cloud in the current cycle
    rendered,            \* style shown by display.show() in the current cycle
    requests,            \* urequests.get calls of the current cycle
    debug_seen,          \* value returned by the last is_debug() call
    rtc_alarm,           \* milliseconds programmed into rtc.ALARM0 (0 = not programmed)
    cycles,              \* run_cycle calls since the program started
    sleeps,              \* time.sleep(LOG_INTERVAL) calls since the program started
    boots                \* program starts

vars == <<config, pc, debug_pin, cloud_pin, sta_connected, led_top, led_writes,
          led_bottom, reset_cause,
          send_data_to_cloud, temperature, humidity, exc, steps, blinks,
          polls, cfg_reads, rendered, requests, debug_seen, rtc_alarm,
          cycles, sleeps, boots>>

\* ------------------------------------------------------------------ bounds
MaxCycles == 2
MaxPolls == 3
MaxBoots == 2
MaxTimes == 4
MaxBlinks == 2

\* --------------------------------------------------------- program constants
QuickDelay == 50        \* blink_led(delay=0.05), in milliseconds
SlowDelay == 500        \* blink_led(delay=0.5), in milliseconds
DisplayAddress == 60    \* 60 not in i2c.scan()
FailureThreshold == 400 \* response.status_code < 400
MsPerSecond == 1000     \* config.LOG_INTERVAL * 1000

\* ------------------------------------------------------------ input domains
LogIntervals == {1, 10}
Configs == [DEEP_SLEEP : BOOLEAN, LOG_INTERVAL : LogIntervals,
            FAHRENHEIT : BOOLEAN, HAS_SEND_PIN : BOOLEAN]
SensorTemperatures == {0, 20}
SensorHumidities == {50}
StatusCodes == {200, 399, 400, 500}
ScanResults == {{}, {DisplayAddress}}
Levels == {0, 1}

\* ------------------------------------------------------------------ helpers
\* read_boolean_pin: the pin is pulled up, so level 0 (GND) means "enabled"
read_boolean_pin(level) == level = 0

is_debug == read_boolean_pin(debug_pin)

\* get_temperature_and_humidity's conversion
ToUnit(t, fahrenheit) == IF fahrenheit THEN (t * 9) \div 5 + 32 ELSE t

\* variant of LedWrites: the loop writes off() before on()
RECURSIVE LedWrites_OffFirst(_)
LedWrites_OffFirst(times) ==
    IF times = 0 THEN <<1>> ELSE <<0, 1>> \o LedWrites_OffFirst(times - 1)

\* the levels blink_led writes to the LED pin, in order
RECURSIVE LedWrites(_)
LedWrites(times) == IF times = 0 THEN <<1>> ELSE <<1, 0>> \o LedWrites(times - 1)

Blink(delay, times) == [delay |-> delay, times |-> times]

show_wifi_connect_wait == Blink(QuickDelay, 1)
show_wifi_connect_success == Blink(QuickDelay, 3)
show_success == Blink(SlowDelay, 1)
show_error_once == Blink(SlowDelay, 1)
show_error == Blink(SlowDelay, 3)

\* blink_led(delay, times) as a state change
blink_led(b) ==
    /\ blinks' = Append(blinks, b)
    /\ led_writes' = LedWrites(b.times)
    /\ led_top' = LedWrites(b.times)[Len(LedWrites(b.times))]

\* ------------------------------------------------------------------ initial
Boot(c, n) ==
    /\ config = c
    /\ pc = "run"
    /\ send_data_to_cloud = FALSE
    /\ temperature = 0
    /\ humidity = 0
    /\ exc = "none"
    /\ steps = <<>>
    /\ blinks = <<>>
    /\ polls = 0
    /\ cfg_reads = 0
    /\ rendered = "none"
    /\ requests = <<>>
    /\ debug_seen = FALSE
    /\ rtc_alarm = 0
    /\ cycles = 0
    /\ sleeps = 0
    /\ boots = n
    /\ led_bottom = 1
    /\ reset_cause = "PWRON_RESET"

Init ==
    /\ \E c \in Configs : Boot(c, 1)
    /\ debug_pin \in Levels
    /\ cloud_pin \in Levels
    /\ sta_connected \in BOOLEAN
    /\ led_top \in Levels
    /\ led_writes = <<>>

\* -------------------------------------------------------------- environment
\* the physical toggles and the access point change independently of the program
ToggleDebugPin ==
    /\ debug_pin' = 1 - debug_pin
    /\ UNCHANGED <<config, led_bottom, reset_cause, pc, cloud_pin, sta_connected, led_top, led_writes,
                   send_data_to_cloud, temperature, humidity, exc, steps,
                   blinks, polls, cfg_reads, rendered, requests, debug_seen,
                   rtc_alarm, cycles, sleeps, boots>>

ToggleCloudPin ==
    /\ cloud_pin' = 1 - cloud_pin
    /\ UNCHANGED <<config, led_bottom, reset_cause, pc, debug_pin, sta_connected, led_top, led_writes,
                   send_data_to_cloud, temperature, humidity, exc, steps,
                   blinks, polls, cfg_reads, rendered, requests, debug_seen,
                   rtc_alarm, cycles, sleeps, boots>>

WifiChange ==
    /\ sta_connected' = ~sta_connected
    /\ UNCHANGED <<config, led_bottom, reset_cause, pc, debug_pin, cloud_pin, led_top, led_writes,
                   send_data_to_cloud, temperature, humidity, exc, steps,
                   blinks, polls, cfg_reads, rendered, requests, debug_seen,
                   rtc_alarm, cycles, sleeps, boots>>

\* ------------------------------------------------------------------ run()
env == <<debug_pin, cloud_pin, sta_connected>>
locals == <<send_data_to_cloud, temperature, humidity>>
sched == <<config, led_bottom, reset_cause, rtc_alarm, cycles, sleeps, boots>>

\* variant of Run: DeepSleep mode tests debug before the cycle
Run_DebugFirst ==
    /\ pc = "run"
    /\ pc' = IF config.DEEP_SLEEP
             THEN (IF is_debug THEN "deepsleep_test" ELSE "cycle_begin")
             ELSE "loop_test"
    /\ UNCHANGED <<env, locals, sched, led_top, led_writes, exc, steps, blinks, polls,
                   cfg_reads, rendered, requests, debug_seen>>

\* run: if config.DEEP_SLEEP ... else ...
Run ==
    /\ pc = "run"
    /\ pc' = IF config.DEEP_SLEEP THEN "cycle_begin" ELSE "loop_test"
    /\ UNCHANGED <<env, locals, sched, led_top, led_writes, exc, steps, blinks, polls,
                   cfg_reads, rendered, requests, debug_seen>>

\* variant of LoopTest: the first iteration is run without the test
LoopTest_DoWhile ==
    /\ pc = "loop_test"
    /\ is_debug \/ cycles < MaxCycles
    /\ debug_seen' = is_debug
    /\ pc' = IF is_debug /\ cycles > 0 THEN "exit" ELSE "cycle_begin"
    /\ UNCHANGED <<env, locals, sched, led_top, led_writes, exc, steps, blinks, polls,
                   cfg_reads, rendered, requests>>

\* variant of LoopTest: while(True), as in chapter5
LoopTest_Forever ==
    /\ pc = "loop_test"
    /\ cycles < MaxCycles
    /\ pc' = "cycle_begin"
    /\ UNCHANGED <<env, locals, sched, led_top, led_writes, exc, steps, blinks, polls,
                   cfg_reads, rendered, requests, debug_seen>>

\* run: while(not is_debug())
LoopTest ==
    /\ pc = "loop_test"
    /\ is_debug \/ cycles < MaxCycles
    /\ debug_seen' = is_debug
    /\ pc' = IF is_debug THEN "exit" ELSE "cycle_begin"
    /\ UNCHANGED <<env, locals, sched, led_top, led_writes, exc, steps, blinks, polls,
                   cfg_reads, rendered, requests>>

\* run: time.sleep(config.LOG_INTERVAL)
IntervalSleep ==
    /\ pc = "interval_sleep"
    /\ sleeps' = sleeps + 1
    /\ pc' = "loop_test"
    /\ UNCHANGED <<env, locals, config, led_bottom, reset_cause, rtc_alarm, cycles, boots, led_top, led_writes,
                   exc, steps, blinks, polls, cfg_reads, rendered, requests,
                   debug_seen>>

\* run: if not is_debug(): deepsleep()
DeepSleepTest ==
    /\ pc = "deepsleep_test"
    /\ debug_seen' = is_debug
    /\ pc' = IF is_debug THEN "exit" ELSE "rtc_alarm"
    /\ UNCHANGED <<env, locals, sched, led_top, led_writes, exc, steps, blinks, polls,
                   cfg_reads, rendered, requests>>

\* variant of RtcAlarm: the interval is passed in seconds
RtcAlarm_Seconds ==
    /\ pc = "rtc_alarm"
    /\ rtc_alarm' = config.LOG_INTERVAL
    /\ pc' = "machine_deepsleep"
    /\ UNCHANGED <<env, locals, config, led_bottom, reset_cause, cycles, sleeps, boots, led_top, led_writes, exc,
                   steps, blinks, polls, cfg_reads, rendered, requests,
                   debug_seen>>

\* deepsleep: rtc.irq(...); rtc.alarm(rtc.ALARM0, config.LOG_INTERVAL * 1000)
RtcAlarm ==
    /\ pc = "rtc_alarm"
    /\ rtc_alarm' = config.LOG_INTERVAL * MsPerSecond
    /\ pc' = "machine_deepsleep"
    /\ UNCHANGED <<env, locals, config, led_bottom, reset_cause, cycles, sleeps, boots, led_top, led_writes, exc,
                   steps, blinks, polls, cfg_reads, rendered, requests,
                   debug_seen>>

\* deepsleep: machine.deepsleep()
MachineDeepsleep ==
    /\ pc = "machine_deepsleep"
    /\ pc' = "asleep"
    /\ UNCHANGED <<env, locals, sched, led_top, led_writes, exc, steps, blinks, polls,
                   cfg_reads, rendered, requests, debug_seen>>

\* the alarm wakes the machine, which starts the program from scratch
Wake ==
    /\ pc = "asleep"
    /\ boots < MaxBoots
    /\ pc' = "run"
    /\ send_data_to_cloud' = FALSE
    /\ temperature' = 0
    /\ humidity' = 0
    /\ exc' = "none"
    /\ steps' = <<>>
    /\ blinks' = <<>>
    /\ polls' = 0
    /\ cfg_reads' = 0
    /\ rendered' = "none"
    /\ requests' = <<>>
    /\ debug_seen' = FALSE
    /\ rtc_alarm' = 0
    /\ cycles' = 0
    /\ sleeps' = 0
    /\ boots' = boots + 1
    /\ sta_connected' \in BOOLEAN
    /\ led_top' \in Levels
    /\ led_writes' = <<>>
    /\ reset_cause' = "DEEPSLEEP_RESET"
    /\ UNCHANGED <<config, led_bottom, debug_pin, cloud_pin>>

\* --------------------------------------------------------------- run_cycle()
cycle_hist == <<steps, blinks, polls, cfg_reads, rendered, requests>>

\* run_cycle entered: nothing of an earlier cycle is kept
CycleBegin ==
    /\ pc = "cycle_begin"
    /\ cycles' = cycles + 1
    /\ send_data_to_cloud' = FALSE
    /\ temperature' = 0
    /\ humidity' = 0
    /\ exc' = "none"
    /\ steps' = <<>>
    /\ blinks' = <<>>
    /\ polls' = 0
    /\ cfg_reads' = 0
    /\ rendered' = "none"
    /\ requests' = <<>>
    /\ pc' = "read_config"
    /\ UNCHANGED <<env, config, led_bottom, reset_cause, rtc_alarm, sleeps, boots, led_top, led_writes, debug_seen>>

\* variant of ReadConfig: the toggle is read before the try block, so that a
\* failure of the read ends run
ReadConfig_Outside ==
    /\ pc = "read_config"
    /\ cfg_reads' = cfg_reads + 1
    /\ steps' = Append(steps, "config")
    /\ IF config.HAS_SEND_PIN
       THEN /\ send_data_to_cloud' = read_boolean_pin(cloud_pin)
            /\ pc' = "measure"
            /\ exc' = exc
       ELSE /\ exc' = "config"
            /\ pc' = "exit"
            /\ UNCHANGED send_data_to_cloud
    /\ UNCHANGED <<env, sched, led_top, led_writes, temperature, humidity, blinks, polls,
                   rendered, requests, debug_seen>>

\* send_data_to_cloud = should_send_data_to_cloud()
\* (config.SEND_DATA_TO_CLOUD_PIN raises AttributeError when the config module lacks it)
ReadConfig ==
    /\ pc = "read_config"
    /\ cfg_reads' = cfg_reads + 1
    /\ steps' = Append(steps, "config")
    /\ IF config.HAS_SEND_PIN
       THEN /\ send_data_to_cloud' = read_boolean_pin(cloud_pin)
            /\ pc' = "measure"
            /\ exc' = exc
       ELSE /\ exc' = "config"
            /\ pc' = "except"
            /\ UNCHANGED send_data_to_cloud
    /\ UNCHANGED <<env, sched, led_top, led_writes, temperature, humidity, blinks, polls,
                   rendered, requests, debug_seen>>

\* variant of Measure: run_cycle goes from the measure to the cloud test
Measure_SkipDisplay ==
    /\ pc = "measure"
    /\ steps' = Append(steps, "measure")
    /\ \/ \E t \in SensorTemperatures, h \in SensorHumidities :
             /\ temperature' = ToUnit(t, config.FAHRENHEIT)
             /\ humidity' = h
             /\ pc' = "cloud_test"
             /\ exc' = exc
       \/ /\ exc' = "sensor"
          /\ pc' = "except"
          /\ UNCHANGED <<temperature, humidity>>
    /\ UNCHANGED <<env, sched, led_top, led_writes, send_data_to_cloud, blinks, polls,
                   cfg_reads, rendered, requests, debug_seen>>

\* temperature, humidity = get_temperature_and_humidity()
Measure ==
    /\ pc = "measure"
    /\ steps' = Append(steps, "measure")
    /\ \/ \E t \in SensorTemperatures, h \in SensorHumidities :
             /\ temperature' = ToUnit(t, config.FAHRENHEIT)
             /\ humidity' = h
             /\ pc' = "display"
             /\ exc' = exc
       \/ /\ exc' = "sensor"
          /\ pc' = "except"
          /\ UNCHANGED <<temperature, humidity>>
    /\ UNCHANGED <<env, sched, led_top, led_writes, send_data_to_cloud, blinks, polls,
                   cfg_reads, rendered, requests, debug_seen>>

\* variant of Style: the test of use_normal_text is inverted
Style_Inverted(use_normal_text) == IF use_normal_text THEN "Rich" ELSE "Plain"

\* the style display_temperature_and_humidity draws the two values in
Style(use_normal_text) == IF use_normal_text THEN "Plain" ELSE "Rich"

\* variant of Display: a display failure is swallowed by the step itself
Display_Continue ==
    /\ pc = "display"
    /\ steps' = Append(steps, "display")
    /\ \E scan \in ScanResults, rest_ok \in BOOLEAN :
          IF DisplayAddress \in scan /\ rest_ok
          THEN /\ rendered' = Style(send_data_to_cloud)
               /\ pc' = "cloud_test"
               /\ exc' = exc
          ELSE /\ exc' = "display"
               /\ pc' = "cloud_test"
               /\ UNCHANGED rendered
    /\ UNCHANGED <<env, sched, locals, led_top, led_writes, blinks, polls, cfg_reads,
                   requests, debug_seen>>

\* display_temperature_and_humidity(temperature, humidity, send_data_to_cloud)
Display ==
    /\ pc = "display"
    /\ steps' = Append(steps, "display")
    /\ \E scan \in ScanResults, rest_ok \in BOOLEAN :
          IF DisplayAddress \in scan /\ rest_ok
          THEN /\ rendered' = Style(send_data_to_cloud)
               /\ pc' = "cloud_test"
               /\ exc' = exc
          ELSE /\ exc' = "display"
               /\ pc' = "except"
               /\ UNCHANGED rendered
    /\ UNCHANGED <<env, sched, locals, led_top, led_writes, blinks, polls, cfg_reads,
                   requests, debug_seen>>

\* variant of CloudTest: the toggle is read again instead of using the snapshot
CloudTest_Reread ==
    /\ pc = "cloud_test"
    /\ pc' = IF read_boolean_pin(cloud_pin) THEN "connect_wifi" ELSE "cycle_end"
    /\ UNCHANGED <<env, sched, locals, led_top, led_writes, exc, cycle_hist, debug_seen>>

\* if send_data_to_cloud:
CloudTest ==
    /\ pc = "cloud_test"
    /\ pc' = IF send_data_to_cloud THEN "connect_wifi" ELSE "cycle_end"
    /\ UNCHANGED <<env, sched, locals, led_top, led_writes, exc, cycle_hist, debug_seen>>

\* connect_wifi up to the wait loop
ConnectWifi ==
    /\ pc = "connect_wifi"
    /\ steps' = Append(steps, "connect")
    /\ \/ /\ pc' = IF sta_connected THEN "wifi_connected" ELSE "wifi_poll"
          /\ exc' = exc
       \/ /\ exc' = "connectivity"
          /\ pc' = "except"
    /\ UNCHANGED <<env, sched, locals, led_top, led_writes, blinks, polls, cfg_reads,
                   rendered, requests, debug_seen>>

\* variant of WifiPoll: the wait gives up after MaxPolls unsuccessful polls
WifiPoll_GiveUp ==
    /\ pc = "wifi_poll"
    /\ IF sta_connected
       THEN /\ pc' = "wifi_connected"
            /\ UNCHANGED <<polls, exc>>
       ELSE IF polls >= MaxPolls
            THEN /\ exc' = "connectivity"
                 /\ pc' = "except"
                 /\ UNCHANGED polls
            ELSE /\ polls' = polls + 1
                 /\ pc' = "wifi_wait"
                 /\ UNCHANGED exc
    /\ UNCHANGED <<env, sched, locals, led_top, led_writes, steps, blinks, cfg_reads,
                   rendered, requests, debug_seen>>

\* connect_wifi: while not sta_if.isconnected()
\* (the loop has no exit other than isconnected(); polls counts exactly up to
\* MaxPolls, and MaxPolls + 1 stands for every larger number of polls)
WifiPoll ==
    /\ pc = "wifi_poll"
    /\ IF sta_connected
       THEN /\ pc' = "wifi_connected"
            /\ UNCHANGED polls
       ELSE /\ polls' = IF polls <= MaxPolls THEN polls + 1 ELSE polls
            /\ pc' = "wifi_wait"
    /\ UNCHANGED <<env, sched, locals, led_top, led_writes, exc, steps, blinks, cfg_reads,
                   rendered, requests, debug_seen>>

\* variant of WifiWait: the loop only sleeps, as in chapter4
WifiWait_NoBlink ==
    /\ pc = "wifi_wait"
    /\ pc' = "wifi_poll"
    /\ UNCHANGED <<env, sched, locals, exc, steps, polls, cfg_reads, rendered,
                   requests, debug_seen, blinks, led_top, led_writes>>

\* connect_wifi: show_wifi_connect_wait(); time.sleep(1)
\* (blinks keeps the waiting blinks of the first MaxPolls polls)
WifiWait ==
    /\ pc = "wifi_wait"
    /\ IF polls <= MaxPolls
       THEN blink_led(show_wifi_connect_wait)
       ELSE /\ led_writes' = LedWrites(show_wifi_connect_wait.times)
            /\ led_top' = 1
            /\ UNCHANGED blinks
    /\ pc' = "wifi_poll"
    /\ UNCHANGED <<env, sched, locals, exc, steps, polls, cfg_reads, rendered,
                   requests, debug_seen>>

\* connect_wifi: show_wifi_connect_success()
WifiConnected ==
    /\ pc = "wifi_connected"
    /\ blink_led(show_wifi_connect_success)
    /\ pc' = "log_data"
    /\ UNCHANGED <<env, sched, locals, exc, steps, polls, cfg_reads, rendered,
                   requests, debug_seen>>

\* the request log_data sends and the status code of its response (0: the
\* request raised and there is no response)
Request(status_code) ==
    [temperature |-> temperature, humidity |-> humidity, status_code |-> status_code]

\* variant of LogData: the threshold test is status_code <= 400
LogData_OffByOne ==
    /\ pc = "log_data"
    /\ steps' = Append(steps, "report")
    /\ \/ \E status_code \in StatusCodes :
             /\ requests' = Append(requests, Request(status_code))
             /\ IF status_code <= FailureThreshold
                THEN /\ blink_led(show_success)
                     /\ pc' = "cycle_end"
                     /\ exc' = exc
                ELSE /\ exc' = "status"
                     /\ pc' = "except"
                     /\ UNCHANGED <<blinks, led_top, led_writes>>
       \/ /\ requests' = Append(requests, Request(0))
          /\ exc' = "transport"
          /\ pc' = "except"
          /\ UNCHANGED <<blinks, led_top, led_writes>>
    /\ UNCHANGED <<env, sched, locals, polls, cfg_reads, rendered, debug_seen>>

\* variant of LogData: a failed upload is sent once more before raising
LogData_Retry ==
    /\ pc = "log_data"
    /\ steps' = Append(steps, "report")
    /\ \/ \E status_code \in StatusCodes :
             /\ requests' = Append(requests, Request(status_code))
             /\ IF status_code < FailureThreshold
                THEN /\ blink_led(show_success)
                     /\ pc' = "cycle_end"
                     /\ exc' = exc
                ELSE /\ exc' = IF requests = <<>> THEN exc ELSE "status"
                     /\ pc' = IF requests = <<>> THEN "log_data" ELSE "except"
                     /\ UNCHANGED <<blinks, led_top, led_writes>>
       \/ /\ requests' = Append(requests, Request(0))
          /\ exc' = "transport"
          /\ pc' = "except"
          /\ UNCHANGED <<blinks, led_top, led_writes>>
    /\ UNCHANGED <<env, sched, locals, polls, cfg_reads, rendered, debug_seen>>

\* variant of LogData: show_success is called before the status code is tested
LogData_BlinkFirst ==
    /\ pc = "log_data"
    /\ steps' = Append(steps, "report")
    /\ \/ \E status_code \in StatusCodes :
             /\ requests' = Append(requests, Request(status_code))
             /\ blink_led(show_success)
             /\ IF status_code < FailureThreshold
                THEN /\ pc' = "cycle_end"
                     /\ exc' = exc
                ELSE /\ exc' = "status"
                     /\ pc' = "except"
       \/ /\ requests' = Append(requests, Request(0))
          /\ exc' = "transport"
          /\ pc' = "except"
          /\ UNCHANGED <<blinks, led_top, led_writes>>
    /\ UNCHANGED <<env, sched, locals, polls, cfg_reads, rendered, debug_seen>>

\* log_data(temperature, humidity)
LogData ==
    /\ pc = "log_data"
    /\ steps' = Append(steps, "report")
    /\ \/ \E status_code \in StatusCodes :
             /\ requests' = Append(requests, Request(status_code))
             /\ IF status_code < FailureThreshold
                THEN /\ blink_led(show_success)
                     /\ pc' = "cycle_end"
                     /\ exc' = exc
                ELSE /\ exc' = "status"
                     /\ pc' = "except"
                     /\ UNCHANGED <<blinks, led_top, led_writes>>
       \/ /\ requests' = Append(requests, Request(0))
          /\ exc' = "transport"
          /\ pc' = "except"
          /\ UNCHANGED <<blinks, led_top, led_writes>>
    /\ UNCHANGED <<env, sched, locals, polls, cfg_reads, rendered, debug_seen>>

\* variant of Except: the except clause logs the exception and shows nothing
Except_Silent ==
    /\ pc = "except"
    /\ pc' = "cycle_end"
    /\ UNCHANGED <<env, sched, locals, exc, steps, polls, cfg_reads, rendered,
                   requests, debug_seen, blinks, led_top, led_writes>>

\* except Exception as exc: sys.print_exception(exc); show_error()
Except ==
    /\ pc = "except"
    /\ blink_led(show_error)
    /\ pc' = "cycle_end"
    /\ UNCHANGED <<env, sched, locals, exc, steps, polls, cfg_reads, rendered,
                   requests, debug_seen>>

\* variant of CycleEnd: run tests config.DEEP_SLEEP the wrong way round
CycleEnd_Inverted ==
    /\ pc = "cycle_end"
    /\ pc' = IF config.DEEP_SLEEP THEN "interval_sleep" ELSE "deepsleep_test"
    /\ UNCHANGED <<env, sched, locals, led_top, led_writes, exc, cycle_hist, debug_seen>>

\* variant of CycleEnd: the exception is raised again and ends run
CycleEnd_Reraise ==
    /\ pc = "cycle_end"
    /\ pc' = IF exc # "none" THEN "exit"
             ELSE IF config.DEEP_SLEEP THEN "deepsleep_test" ELSE "interval_sleep"
    /\ UNCHANGED <<env, sched, locals, led_top, led_writes, exc, cycle_hist, debug_seen>>

\* run_cycle returns to run
CycleEnd ==
    /\ pc = "cycle_end"
    /\ pc' = IF config.DEEP_SLEEP THEN "deepsleep_test" ELSE "interval_sleep"
    /\ UNCHANGED <<env, sched, locals, led_top, led_writes, exc, cycle_hist, debug_seen>>

\* ------------------------------------------------------------ specification
Next ==
    \/ ToggleDebugPin
    \/ ToggleCloudPin
    \/ WifiChange
    \/ Run
    \/ LoopTest
    \/ IntervalSleep
    \/ DeepSleepTest
    \/ RtcAlarm
    \/ MachineDeepsleep
    \/ Wake
    \/ CycleBegin
    \/ ReadConfig
    \/ Measure
    \/ Display
    \/ CloudTest
    \/ ConnectWifi
    \/ WifiPoll
    \/ WifiWait
    \/ WifiConnected
    \/ LogData
    \/ Except
    \/ CycleEnd

Spec == Init /\ [][Next]_vars

\* the steps of the program itself: the single thread of control always takes
\* its next step (every sleep returns, the alarm fires); the toggles and the
\* access point owe nothing
Program ==
    \/ Run
    \/ LoopTest
    \/ IntervalSleep
    \/ DeepSleepTest
    \/ RtcAlarm
    \/ MachineDeepsleep
    \/ Wake
    \/ CycleBegin
    \/ ReadConfig
    \/ Measure
    \/ Display
    \/ CloudTest
    \/ ConnectWifi
    \/ WifiPoll
    \/ WifiWait
    \/ WifiConnected
    \/ LogData
    \/ Except
    \/ CycleEnd

FairSpec == Init /\ [][Next]_vars /\ WF_vars(Program)

\* ---------------------------------------------------- blink_led on its own
\* blink_led called with every delay in use and every times in 0..MaxTimes
BlinkInit ==
    /\ \E c \in Configs : Boot(c, 1)
    /\ debug_pin = 1
    /\ cloud_pin = 1
    /\ sta_connected = FALSE
    /\ led_top \in Levels
    /\ led_writes = <<>>

BlinkCall ==
    /\ Len(blinks) < MaxBlinks
    /\ \E delay \in {QuickDelay, SlowDelay}, times \in 0..MaxTimes :
          blink_led(Blink(delay, times))
    /\ UNCHANGED <<env, sched, locals, pc, exc, steps, polls, cfg_reads,
                   rendered, requests, debug_seen>>

BlinkNext == BlinkCall

BlinkSpec == BlinkInit /\ [][BlinkNext]_vars

\* ------------------------------------------------------------- vocabulary
Contains(seq, x) == \E i \in DOMAIN seq : seq[i] = x
Count(seq, x) == Cardinality({i \in DOMAIN seq : seq[i] = x})

QuickWaitPattern == [delay |-> 50, times |-> 1]
QuickSuccessPattern == [delay |-> 50, times |-> 3]
SlowSuccessPattern == [delay |-> 500, times |-> 1]
SlowErrorPattern == [delay |-> 500, times |-> 3]

IsSlow(b) == b.delay = 500
SlowBlinks == SelectSeq(blinks, IsSlow)

\* positions of run_cycle and of run
CyclePcs == {"read_config", "measure", "display", "cloud_test", "connect_wifi",
             "wifi_poll", "wifi_wait", "wifi_connected", "log_data", "except",
             "cycle_end"}
AfterCyclePcs == {"interval_sleep", "loop_test", "deepsleep_test", "rtc_alarm",
                  "machine_deepsleep", "asleep", "exit"}

\* the steps a cycle with the given snapshot attempts when none of them fails
GatedSteps(cloud) ==
    IF cloud THEN <<"config", "measure", "display", "connect", "report">>
    ELSE <<"config", "measure", "display">>

C2_AsStated ==
    (pc = "cycle_end" /\ send_data_to_cloud /\ exc = "display")
        => Contains(steps, "report")

\* C2 (amended): in a cycle with cloud reporting enabled and the reading
\* acquired, a failure of the display step ends the cycle at the failure
\* boundary: neither connect nor report is attempted, no request is sent, the
\* cycle finishes with the slow error pattern and control stays inside the
\* program (the except clause, then run's scheduling positions).
C2_DisplayFailureEndsCycle ==
    (send_data_to_cloud /\ exc = "display") =>
        /\ steps = <<"config", "measure", "display">>
        /\ requests = <<>>
        /\ rendered = "none"
        /\ pc \in {"except", "cycle_end"} \cup AfterCyclePcs \cup {"cycle_begin"}
        /\ blinks = IF pc = "except" THEN <<>> ELSE <<SlowErrorPattern>>

\* cloud reporting enabled, display failed, the cycle is over and run sleeps
C2_Witness ==
    /\ pc = "interval_sleep"
    /\ send_data_to_cloud
    /\ exc = "display"
    /\ steps = <<"config", "measure", "display">>
    /\ blinks = <<SlowErrorPattern>>

\* ----------------------------------------------------------------------- C3
\* where run goes from a scheduling position; the outcome of the cycle is not
\* an argument
AfterCycle(at, deep_sleep, debug) ==
    CASE at = "cycle_end" -> IF deep_sleep THEN "deepsleep_test" ELSE "interval_sleep"
      [] at = "interval_sleep" -> "loop_test"
      [] at = "loop_test" -> IF debug THEN "exit" ELSE "cycle_begin"
      [] at = "deepsleep_test" -> IF debug THEN "exit" ELSE "rtc_alarm"
      [] at = "rtc_alarm" -> "machine_deepsleep"
      [] at = "machine_deepsleep" -> "asleep"
      [] OTHER -> at

C3_Caught ==
    exc # "none" =>
        /\ pc \in {"except", "cycle_end", "cycle_begin"} \cup AfterCyclePcs
        /\ pc # "except" => (Len(blinks) > 0 /\ blinks[Len(blinks)] = SlowErrorPattern
                             /\ Count(blinks, SlowErrorPattern) = 1)

C3_Proceeds ==
    /\ pc = "except" => pc' \in {"except", "cycle_end"}
    /\ (pc \in {"cycle_end", "interval_sleep", "loop_test", "deepsleep_test",
                "rtc_alarm", "machine_deepsleep"} /\ pc' # pc)
          => pc' = AfterCycle(pc, config.DEEP_SLEEP, debug_pin = 0)
    /\ (pc = "interval_sleep" /\ pc' # pc) => sleeps' = sleeps + 1

\* C3: a failure of any step is caught at run_cycle's except clause, ends in
\* the slow error pattern and never leaves the program; from the end of the
\* cycle run moves on by the power mode and the debug toggle alone, the same
\* after a failed cycle as after a successful one.
C3_FailureContained == [](C3_Caught) /\ [][C3_Proceeds]_vars

\* loop mode: a cycle failed at the display, the interval was slept and the
\* next iteration is being decided
C3_Witness ==
    /\ ~config.DEEP_SLEEP
    /\ pc = "loop_test"
    /\ exc = "display"
    /\ cycles = 1
    /\ sleeps = 1
    /\ blinks = <<SlowErrorPattern>>

\* ----------------------------------------------------------------------- C4
C4_OneRead ==
    /\ cfg_reads <= 1
    /\ pc \in CyclePcs \ {"read_config"} => cfg_reads = 1
    /\ pc \in CyclePcs \ {"read_config"} => (steps # <<>> /\ steps[1] = "config")
    /\ Count(steps, "config") <= 1
    /\ rendered # "none" => rendered = (IF send_data_to_cloud THEN "Plain" ELSE "Rich")
    /\ (Contains(steps, "connect") \/ Contains(steps, "report")) => send_data_to_cloud
    /\ (pc = "cycle_end" /\ exc = "none" /\ send_data_to_cloud)
          => (Contains(steps, "connect") /\ Contains(steps, "report"))

C4_SnapshotKept ==
    /\ (pc = "read_config" /\ pc' = "measure") => send_data_to_cloud' = (cloud_pin = 0)
    /\ (pc \in CyclePcs \ {"read_config"} /\ pc' \in CyclePcs)
          => (send_data_to_cloud' = send_data_to_cloud /\ cfg_reads' = cfg_reads)

\* C4: the cloud toggle is read once per cycle, as the cycle's first step;
\* the snapshot is the pin's value at that read and stays unchanged to the
\* end of the cycle, and the display style and the connect/report decision
\* follow the snapshot, whatever the pin does afterwards.
C4_ConfigSnapshot == [](C4_OneRead) /\ [][C4_SnapshotKept]_vars

\* the toggle was enabled at the read and disabled later in the cycle, which
\* still rendered plain and reported
C4_Witness ==
    /\ pc = "cycle_end"
    /\ cfg_reads = 1
    /\ send_data_to_cloud
    /\ cloud_pin = 1
    /\ rendered = "Plain"
    /\ steps = <<"config", "measure", "display", "connect", "report">>

\* ----------------------------------------------------------------------- C5
\* C5: whenever the display has been rendered in a cycle, the style is Plain
\* iff the cycle's snapshot has cloud reporting enabled and Rich iff it has
\* not; no cycle connects or reports after rendering Rich.
C5_StyleCoupling ==
    /\ rendered \in {"none", "Plain", "Rich"}
    /\ rendered # "none" =>
          /\ rendered = "Plain" <=> send_data_to_cloud
          /\ rendered = "Rich" <=> ~send_data_to_cloud
    /\ (rendered = "Rich") => (~Contains(steps, "connect") /\ ~Contains(steps, "report")
                               /\ requests = <<>>)
    /\ (Contains(steps, "report") /\ pc \in CyclePcs) => rendered = "Plain"

\* a cycle that rendered plain and sent its request
C5_Witness ==
    /\ rendered = "Plain"
    /\ send_data_to_cloud
    /\ Len(requests) = 1
    /\ pc = "cycle_end"

\* ----------------------------------------------------------------------- C6
C6_AlarmState ==
    config.DEEP_SLEEP =>
        /\ pc \in {"deepsleep_test", "rtc_alarm", "machine_deepsleep", "asleep", "exit"}
              => (cycles = 1 /\ Len(steps) > 0)
        /\ pc = "exit" => (debug_seen /\ rtc_alarm = 0)
        /\ pc = "rtc_alarm" => (~debug_seen /\ rtc_alarm = 0)
        /\ pc \in {"machine_deepsleep", "asleep"}
              => (~debug_seen /\ rtc_alarm = config.LOG_INTERVAL * 1000)
        /\ rtc_alarm # 0 => pc \in {"machine_deepsleep", "asleep"}

C6_SampleDecides ==
    config.DEEP_SLEEP =>
        /\ (pc = "deepsleep_test" /\ pc' # pc)
              => (debug_seen' = (debug_pin = 0)
                  /\ pc' = IF debug_pin = 0 THEN "exit" ELSE "rtc_alarm")
        /\ pc = "exit" => (pc' = "exit" /\ rtc_alarm' = 0)

\* C6: in DeepSleep mode the debug toggle is sampled once the cycle is over,
\* whatever its outcome: sampled asserted, the program halts with no alarm
\* programmed and never enters deep sleep; sampled not asserted, the alarm is
\* programmed to LOG_INTERVAL * 1000 ms before machine.deepsleep is entered.
C6_DeepSleepDebug == [](C6_AlarmState) /\ [][C6_SampleDecides]_vars

\* asleep after a failed cycle, with the alarm at the 10 second interval
C6_Witness ==
    /\ config.DEEP_SLEEP
    /\ config.LOG_INTERVAL = 10
    /\ pc = "asleep"
    /\ exc = "sensor"
    /\ rtc_alarm = 10000

\* ----------------------------------------------------------------------- C7
C7_LoopStep ==
    ~config.DEEP_SLEEP =>
        /\ (pc = "loop_test" /\ pc' # pc)
              => (pc' = IF debug_pin = 0 THEN "exit" ELSE "cycle_begin")
        /\ pc' = "exit" => pc \in {"loop_test", "exit"}
        /\ pc = "exit" => (pc' = "exit" /\ cycles' = cycles /\ steps' = steps)
        /\ pc \in CyclePcs => (pc' \in CyclePcs \cup {"interval_sleep"}
                               /\ debug_seen' = debug_seen
                               /\ cycles' = cycles)
        /\ pc' = "interval_sleep" => pc \in {"cycle_end", "interval_sleep"}

\* C7: in loop mode the debug toggle is read only at the loop test before an
\* iteration; read asserted, the loop ends and no further cycle is run; read
\* not asserted, the cycle starts; inside a cycle no step leaves the cycle
\* other than through its end, whatever the debug toggle does meanwhile.
C7_LoopDebug == [](~config.DEEP_SLEEP /\ pc = "exit" => debug_seen) /\ [][C7_LoopStep]_vars

\* the loop ended on debug after one whole cycle and one interval sleep
C7_Witness ==
    /\ ~config.DEEP_SLEEP
    /\ pc = "exit"
    /\ cycles = 1
    /\ sleeps = 1
    /\ steps # <<>>

\* ----------------------------------------------------------------------- C8
C8_OneCycle ==
    config.DEEP_SLEEP =>
        /\ cycles <= 1
        /\ pc \in CyclePcs \cup AfterCyclePcs => cycles = 1
        /\ pc \notin {"loop_test", "interval_sleep"}
        /\ sleeps = 0

C8_Hold ==
    config.DEEP_SLEEP =>
        /\ (pc = "run" /\ pc' # pc) => pc' = "cycle_begin"
        /\ pc = "exit" => (pc' = "exit" /\ cycles' = cycles /\ steps' = steps
                           /\ blinks' = blinks /\ requests' = requests)
        /\ (pc = "cycle_end" /\ pc' # pc) => pc' = "deepsleep_test"

\* C8: in DeepSleep mode every start of the program runs one cycle, whatever
\* the debug toggle is at startup and however the cycle ends; after the cycle
\* the program only goes to the debug test and from there to deep sleep or to
\* the halt, and once halted it runs nothing more.
C8_DeepSleepOneCycle == [](C8_OneCycle) /\ [][C8_Hold]_vars

\* second start of the program: it ran its one cycle and halted on debug
C8_Witness ==
    /\ config.DEEP_SLEEP
    /\ boots = 2
    /\ pc = "exit"
    /\ cycles = 1
    /\ debug_seen

\* ----------------------------------------------------------------------- C9
\* C9: when the sensor acquisition fails, the cycle attempts neither the
\* display nor connect nor report, and ends with the slow error pattern of 3
\* repetitions as its only blink.
C9_AcquisitionFailure ==
    exc = "sensor" =>
        /\ steps = <<"config", "measure">>
        /\ rendered = "none"
        /\ requests = <<>>
        /\ polls = 0
        /\ pc # "except" => blinks = <<[delay |-> 500, times |-> 3]>>
        /\ pc = "except" => blinks = <<>>

\* a finished cycle whose acquisition failed
C9_Witness ==
    /\ pc = "cycle_end"
    /\ exc = "sensor"
    /\ blinks = <<SlowErrorPattern>>
    /\ steps = <<"config", "measure">>

\* ---------------------------------------------------------------------- C10
\* n quick waiting blinks
Waits(n) == [i \in 1..n |-> QuickWaitPattern]

\* C10: in connect_wifi the waiting blinks emitted are as many as the
\* unsuccessful polls so far; when the interface is found connected after n
\* unsuccessful polls the cycle's blinks are n quick waiting blinks, then one
\* quick association-success blink of 3 repetitions, and only after those
\* the cycle's slow outcome blink.
C10_AssociationBlinks ==
    /\ polls <= MaxPolls =>
          /\ pc \in {"connect_wifi", "wifi_poll", "wifi_connected"} => blinks = Waits(polls)
          /\ pc = "wifi_wait" => (polls > 0 /\ blinks = Waits(polls - 1))
          /\ pc = "log_data" => blinks = Waits(polls) \o <<QuickSuccessPattern>>
          /\ (pc \in {"except", "cycle_end"} /\ Contains(steps, "report"))
                => /\ Len(blinks) \in {polls + 1, polls + 2}
                   /\ SubSeq(blinks, 1, polls + 1) = Waits(polls) \o <<QuickSuccessPattern>>
                   /\ Len(blinks) = polls + 2 => IsSlow(blinks[polls + 2])
    /\ Count(blinks, QuickSuccessPattern) <= 1
    /\ Count(blinks, QuickWaitPattern) <= polls
    /\ \A i, j \in DOMAIN blinks :
          (blinks[i] = QuickWaitPattern /\ blinks[j] # QuickWaitPattern) => i < j

\* connected after 3 unsuccessful polls, then reported successfully
C10_Witness ==
    /\ pc = "cycle_end"
    /\ polls = 3
    /\ blinks = <<QuickWaitPattern, QuickWaitPattern, QuickWaitPattern,
                  QuickSuccessPattern, SlowSuccessPattern>>

\* ---------------------------------------------------------------------- C11
InWait == pc \in {"wifi_poll", "wifi_wait"}

\* C11 (as stated): the association wait is bounded, so a cycle that has
\* entered the wait always reaches the end of the cycle, also when the
\* station interface never reports connected.
C11_AsStated == (pc = "wifi_poll") ~> (pc \in {"except", "cycle_end"})

C11_OnlyExit ==
    /\ (InWait /\ pc' \notin {"wifi_poll", "wifi_wait"})
          => (pc = "wifi_poll" /\ sta_connected /\ pc' = "wifi_connected"
              /\ exc' = "none" /\ polls' = polls)
    /\ (pc = "wifi_poll" /\ ~sta_connected /\ pc' # pc) => pc' = "wifi_wait"
    /\ (pc = "wifi_wait" /\ pc' # pc) => pc' = "wifi_poll"

\* C11 (amended): the association wait in connect_wifi has no bound: the
\* polling loop is left only by a poll that finds the station interface
\* connected; every poll that finds it not connected is followed by the
\* waiting blink and another poll, however many polls have gone before.
C11_WaitUntilConnected == [](InWait => exc = "none") /\ [][C11_OnlyExit]_vars

\* still polling, not connected, after more than MaxPolls polls
C11_Witness ==
    /\ pc = "wifi_poll"
    /\ polls > MaxPolls
    /\ ~sta_connected

\* ---------------------------------------------------------------------- C12
\* C12: once the report has been transmitted, a status code below 400 ends
\* the cycle with the slow success signal and no exception; a status code of
\* 400 or more, like a request that raised, gives no success signal, goes to
\* the except clause and ends the cycle with the slow error pattern.
C12_StatusThreshold ==
    (requests # <<>> /\ pc \in CyclePcs) =>
        LET r == requests[Len(requests)] IN
        IF r.status_code >= 1 /\ r.status_code < 400
        THEN /\ pc = "cycle_end"
             /\ exc = "none"
             /\ blinks[Len(blinks)] = SlowSuccessPattern
        ELSE /\ pc \in {"except", "cycle_end"}
             /\ exc = (IF r.status_code = 0 THEN "transport" ELSE "status")
             /\ ~Contains(blinks, SlowSuccessPattern)
             /\ Count(blinks, SlowErrorPattern) = (IF pc = "except" THEN 0 ELSE 1)
             /\ pc = "cycle_end" => blinks[Len(blinks)] = SlowErrorPattern

\* the response had status code 400 and the cycle ended with the error blink
C12_Witness ==
    /\ pc = "cycle_end"
    /\ Len(requests) = 1
    /\ requests[1].status_code = 400
    /\ exc = "status"
    /\ blinks[Len(blinks)] = SlowErrorPattern

\* ---------------------------------------------------------------------- C13
\* the step whose failure raises the given exception
FailedStep(e) ==
    CASE e = "config" -> "config"
      [] e = "sensor" -> "measure"
      [] e = "display" -> "display"
      [] e = "connectivity" -> "connect"
      [] e \in {"transport", "status"} -> "report"

C13_Once ==
    /\ \A s \in {"config", "measure", "display", "connect", "report"} : Count(steps, s) <= 1
    /\ Len(requests) <= 1
    /\ exc # "none" => (steps # <<>> /\ steps[Len(steps)] = FailedStep(exc))

C13_NoRetry ==
    /\ (exc # "none" /\ steps' # steps)
          => (steps' = <<>> /\ (\/ pc = "cycle_begin" /\ cycles' = cycles + 1
                                \/ pc = "asleep" /\ boots' = boots + 1))
    /\ (exc # "none" /\ requests' # requests) => pc \in {"cycle_begin", "asleep"}
    /\ (exc # "none" /\ exc' = "none") => pc \in {"cycle_begin", "asleep"}

\* C13: within one cycle every step is attempted at most once and at most
\* one request is sent; after the first failure the failed step stays the
\* last step of the cycle, and it is attempted again only by a later cycle
\* (the next iteration of the loop, or the cycle run after the wake-up).
C13_AtMostOnce == [](C13_Once) /\ [][C13_NoRetry]_vars

\* connect failed: it is the last step of the finished cycle
C13_Witness ==
    /\ pc = "cycle_end"
    /\ exc = "connectivity"
    /\ steps = <<"config", "measure", "display", "connect">>
    /\ requests = <<>>

\* ---------------------------------------------------------------------- C14
IsPrefix(p, q) == Len(p) <= Len(q) /\ \A i \in DOMAIN p : p[i] = q[i]

\* C14: the steps of a cycle are always an initial part of snapshot,
\* acquisition, display, connect, report, in that order; a report is
\* transmitted only when the snapshot has cloud reporting enabled and
\* acquisition, display and connect have completed before it, and it carries
\* the reading acquired in that cycle.
C14_StepOrder ==
    /\ IsPrefix(steps, <<"config", "measure", "display", "connect", "report">>)
    /\ Contains(steps, "connect") => (send_data_to_cloud /\ rendered = "Plain")
    /\ (Contains(steps, "report") /\ pc \in CyclePcs) =>
          /\ send_data_to_cloud
          /\ cfg_reads = 1
          /\ rendered = "Plain"
          /\ Count(blinks, QuickSuccessPattern) = 1
          /\ Len(requests) = 1
          /\ requests[1].temperature = temperature
          /\ requests[1].humidity = humidity
          /\ humidity \in SensorHumidities

\* all five steps attempted, in order, and the cycle succeeded
C14_Witness ==
    /\ pc = "cycle_end"
    /\ exc = "none"
    /\ steps = <<"config", "measure", "display", "connect", "report">>
    /\ Len(requests) = 1

\* ---------------------------------------------------------------------- C15
\* C15: a blink_led call with `times` repetitions writes on, off to the pin
\* `times` times and then on once more, so that for every times, 0 included,
\* the pin is left at the on() level; the waiting and success patterns have
\* 1 repetition, the error and association-success patterns 3.
C15_BlinkLed ==
    /\ blinks # <<>> =>
          LET t == blinks[Len(blinks)].times IN
          /\ Len(led_writes) = 2 * t + 1
          /\ \A i \in 1..t : (led_writes[2 * i - 1] = 1 /\ led_writes[2 * i] = 0)
          /\ led_writes[2 * t + 1] = 1
          /\ led_top = 1
    /\ show_wifi_connect_wait.times = 1
    /\ show_success.times = 1
    /\ show_error.times = 3
    /\ show_wifi_connect_success.times = 3

\* blink_led called with times = 0 after a call with 3 repetitions
C15_Witness ==
    /\ Len(blinks) = 2
    /\ blinks[1].times = 3
    /\ blinks[2].times = 0
    /\ led_writes = <<1>>
    /\ led_top = 1

\* ---------------------------------------------------------------------- C16
\* C16: in loop mode the interval sleep is performed only when the node is
\* not in debug: no time.sleep(LOG_INTERVAL) is done at a moment when the
\* debug toggle is asserted.
C16_SleepOnlyIfNotDebug ==
    [][(~config.DEEP_SLEEP /\ pc = "interval_sleep" /\ debug_pin = 0)
          => sleeps' = sleeps]_vars

\* ---------------------------------------------------------------------- C17
C17_Exclusive ==
    /\ ~(Contains(blinks, SlowSuccessPattern) /\ Contains(blinks, SlowErrorPattern))
    /\ Count(blinks, SlowSuccessPattern) + Count(blinks, SlowErrorPattern) <= 1
    /\ Contains(blinks, SlowSuccessPattern) =>
          /\ blinks[Len(blinks)] = SlowSuccessPattern
          /\ steps[Len(steps)] = "report"
          /\ exc = "none"
          /\ pc \notin {"except", "log_data"}

C17_NothingAfterSuccess ==
    (Contains(blinks, SlowSuccessPattern) /\ blinks' # blinks)
        => (blinks' = <<>> /\ pc \in {"cycle_begin", "asleep"})

\* C17: no cycle emits both the slow success and the slow error pattern, and
\* none emits more than one slow signal; the success pattern, once emitted,
\* is the last blink of its cycle, which ends without an exception; the quick
\* association-success blink may be followed by the slow error pattern.
C17_SuccessXorError == [](C17_Exclusive) /\ [][C17_NothingAfterSuccess]_vars

\* association succeeded, the report failed on its status code
C17_Witness ==
    /\ pc = "cycle_end"
    /\ exc = "status"
    /\ blinks = <<QuickSuccessPattern, SlowErrorPattern>>

\* ---------------------------------------------------------------------- C18
C18_Separate ==
    /\ ~config.DEEP_SLEEP =>
          /\ rtc_alarm = 0
          /\ pc \notin {"deepsleep_test", "rtc_alarm", "machine_deepsleep", "asleep"}
          /\ boots = 1
    /\ config.DEEP_SLEEP =>
          /\ sleeps = 0
          /\ pc \notin {"loop_test", "interval_sleep"}

\* C18: the power mode never changes during a run; in loop mode the wake
\* alarm is never programmed and deep sleep never entered, also after the
\* loop has ended on debug; in DeepSleep mode the interval sleep and the
\* loop test are never used.
C18_ModesNeverMix == [](C18_Separate) /\ [][config' = config]_vars

\* loop mode, stopped on debug after two cycles and two interval sleeps
C18_Witness ==
    /\ ~config.DEEP_SLEEP
    /\ pc = "exit"
    /\ cycles = 2
    /\ sleeps = 2
    /\ rtc_alarm = 0

\* ---------------------------------------------------------------------- C19
C19_AtStart ==
    /\ (~config.DEEP_SLEEP /\ cycles = 0) =>
          /\ steps = <<>>
          /\ blinks = <<>>
          /\ requests = <<>>
          /\ rendered = "none"
          /\ sleeps = 0
          /\ led_writes = <<>>
          /\ pc \in {"run", "loop_test", "cycle_begin", "exit"}
          /\ pc = "exit" => debug_seen
    /\ (config.DEEP_SLEEP /\ pc = "exit") =>
          /\ cycles = 1
          /\ steps # <<>>
          /\ debug_seen

C19_FirstTest ==
    /\ (~config.DEEP_SLEEP /\ pc = "loop_test" /\ cycles = 0 /\ debug_pin = 0 /\ pc' # pc)
          => pc' = "exit"
    /\ (~config.DEEP_SLEEP /\ pc = "exit") => (pc' = "exit" /\ cycles' = cycles)
    /\ (config.DEEP_SLEEP /\ pc = "run" /\ pc' # pc) => pc' = "cycle_begin"

\* C19: in loop mode, when the debug toggle is asserted at the first loop
\* test, the program ends there with no cycle run: no step, no request, no
\* blink, no sleep; in DeepSleep mode the program starts its cycle whatever
\* the toggle is, and halts only after that one cycle.
C19_DebugAtStart == [](C19_AtStart) /\ [][C19_FirstTest]_vars

\* loop mode ended at its first test, nothing done
C19_Witness ==
    /\ ~config.DEEP_SLEEP
    /\ pc = "exit"
    /\ cycles = 0
    /\ debug_seen
    /\ blinks = <<>>
    /\ steps = <<>>

\* ---------------------------------------------------------------------- C20
C20_Caught ==
    /\ exc = "config" =>
          /\ ~config.HAS_SEND_PIN
          /\ steps = <<"config">>
          /\ rendered = "none"
          /\ requests = <<>>
          /\ polls = 0
          /\ pc \in {"except", "cycle_end", "cycle_begin"} \cup AfterCyclePcs
          /\ blinks = IF pc = "except" THEN <<>> ELSE <<SlowErrorPattern>>
    /\ (~config.HAS_SEND_PIN /\ pc \in CyclePcs \ {"read_config"}) => exc = "config"

C20_Continues ==
    (exc = "config" /\ pc' # pc) =>
        pc' = (CASE pc = "except" -> "cycle_end"
                 [] pc = "cycle_end" -> IF config.DEEP_SLEEP THEN "deepsleep_test" ELSE "interval_sleep"
                 [] pc = "interval_sleep" -> "loop_test"
                 [] pc = "loop_test" -> IF debug_pin = 0 THEN "exit" ELSE "cycle_begin"
                 [] pc = "deepsleep_test" -> IF debug_pin = 0 THEN "exit" ELSE "rtc_alarm"
                 [] pc = "rtc_alarm" -> "machine_deepsleep"
                 [] pc = "machine_deepsleep" -> "asleep"
                 [] pc = "asleep" -> "run"
                 [] pc = "cycle_begin" -> "read_config"
                 [] OTHER -> pc)

\* C20: a failure raised by the read of the cloud toggle (the config module
\* lacking SEND_DATA_TO_CLOUD_PIN) is caught by run_cycle's except clause:
\* the cycle attempts no acquisition, display, connect or report, ends with
\* the slow error pattern as its only blink, and run goes on as after any
\* other cycle.
C20_ConfigReadContained == [](C20_Caught) /\ [][C20_Continues]_vars

\* the pin constant is missing, loop mode with the 10 second interval: the
\* cycle failed at the read, the interval was slept, the loop test is next
C20_Witness ==
    /\ config = [DEEP_SLEEP |-> FALSE, LOG_INTERVAL |-> 10, FAHRENHEIT |-> FALSE,
                 HAS_SEND_PIN |-> FALSE]
    /\ pc = "loop_test"
    /\ cycles = 1
    /\ sleeps = 1
    /\ exc = "config"
    /\ blinks = <<SlowErrorPattern>>

\* ===================================================== chapter4/main.py
\* The webhook button: run() of chapter4, with the debug pin, the station
\* interface and the webhook's response as the environment.  It uses pc,
\* reset_cause, debug_pin, sta_connected, led_top, led_bottom, led_writes,
\* exc, steps, blinks, polls, requests, debug_seen and boots.

ResetCauses == {"PWRON_RESET", "HARD_RESET", "WDT_RESET", "DEEPSLEEP_RESET", "SOFT_RESET"}

\* the variables chapter4 does not use
unused4 == <<config, cloud_pin, send_data_to_cloud, temperature, humidity,
             cfg_reads, rendered, rtc_alarm, cycles, sleeps>>

\* the levels chapter4's show_error writes to the top and the bottom LED pin
RECURSIVE ErrorWrites4(_)
ErrorWrites4(times) ==
    IF times = 0 THEN <<[top |-> 1, bottom |-> 1]>>
    ELSE <<[top |-> 1, bottom |-> 0], [top |-> 0, bottom |-> 1]>> \o ErrorWrites4(times - 1)

Ch4Init ==
    /\ config = [DEEP_SLEEP |-> TRUE, LOG_INTERVAL |-> 10, FAHRENHEIT |-> FALSE,
                 HAS_SEND_PIN |-> FALSE]
    /\ pc = "run4"
    /\ reset_cause \in ResetCauses
    /\ debug_pin \in Levels
    /\ sta_connected \in BOOLEAN
    /\ led_top \in Levels
    /\ led_bottom \in Levels
    /\ led_writes = <<>>
    /\ cloud_pin = 1
    /\ send_data_to_cloud = FALSE
    /\ temperature = 0
    /\ humidity = 0
    /\ exc = "none"
    /\ steps = <<>>
    /\ blinks = <<>>
    /\ polls = 0
    /\ cfg_reads = 0
    /\ rendered = "none"
    /\ requests = <<>>
    /\ debug_seen = FALSE
    /\ rtc_alarm = 0
    /\ cycles = 0
    /\ sleeps = 0
    /\ boots = 1

\* variant of Run4: the webhook is invoked after every reset but a wake-up
Run4_Inverted ==
    /\ pc = "run4"
    /\ pc' = IF reset_cause # "DEEPSLEEP_RESET" THEN "connect_wifi4" ELSE "is_debug4"
    /\ UNCHANGED <<unused4, reset_cause, debug_pin, sta_connected, led_top,
                   led_bottom, led_writes, exc, steps, blinks, polls, requests,
                   debug_seen, boots>>

\* run: if machine.reset_cause() == machine.DEEPSLEEP_RESET
Run4 ==
    /\ pc = "run4"
    /\ pc' = IF reset_cause = "DEEPSLEEP_RESET" THEN "connect_wifi4" ELSE "is_debug4"
    /\ UNCHANGED <<unused4, reset_cause, debug_pin, sta_connected, led_top,
                   led_bottom, led_writes, exc, steps, blinks, polls, requests,
                   debug_seen, boots>>

\* connect_wifi up to the wait loop
ConnectWifi4 ==
    /\ pc = "connect_wifi4"
    /\ steps' = Append(steps, "connect")
    /\ \/ /\ pc' = IF sta_connected THEN "call_webhook4" ELSE "wifi_poll4"
          /\ exc' = exc
       \/ /\ exc' = "connectivity"
          /\ pc' = "except4"
    /\ UNCHANGED <<unused4, reset_cause, debug_pin, sta_connected, led_top,
                   led_bottom, led_writes, blinks, polls, requests, debug_seen,
                   boots>>

\* connect_wifi: while not sta_if.isconnected(): time.sleep(1)
\* (polls counts exactly up to MaxPolls; MaxPolls + 1 stands for more)
WifiPoll4 ==
    /\ pc = "wifi_poll4"
    /\ IF sta_connected
       THEN /\ pc' = "call_webhook4"
            /\ UNCHANGED polls
       ELSE /\ polls' = IF polls <= MaxPolls THEN polls + 1 ELSE polls
            /\ pc' = "wifi_sleep4"
    /\ UNCHANGED <<unused4, reset_cause, debug_pin, sta_connected, led_top,
                   led_bottom, led_writes, exc, steps, blinks, requests,
                   debug_seen, boots>>

WifiSleep4 ==
    /\ pc = "wifi_sleep4"
    /\ pc' = "wifi_poll4"
    /\ UNCHANGED <<unused4, reset_cause, debug_pin, sta_connected, led_top,
                   led_bottom, led_writes, exc, steps, blinks, polls, requests,
                   debug_seen, boots>>

\* call_webhook: the post raises, returns None, or returns a status code
CallWebhook4 ==
    /\ pc = "call_webhook4"
    /\ steps' = Append(steps, "webhook")
    /\ \/ \E status_code \in StatusCodes :
             /\ requests' = Append(requests, [response |-> "response", status_code |-> status_code])
             /\ IF status_code < FailureThreshold
                THEN /\ pc' = "is_debug4"
                     /\ exc' = exc
                ELSE /\ exc' = "status"
                     /\ pc' = "except4"
       \/ /\ requests' = Append(requests, [response |-> "None", status_code |-> 0])
          /\ exc' = "status"
          /\ pc' = "except4"
       \/ /\ requests' = Append(requests, [response |-> "raised", status_code |-> 0])
          /\ exc' = "transport"
          /\ pc' = "except4"
    /\ UNCHANGED <<unused4, reset_cause, debug_pin, sta_connected, led_top,
                   led_bottom, led_writes, blinks, polls, debug_seen, boots>>

\* except Exception as exc: sys.print_exception(exc); show_error()
Except4 ==
    /\ pc = "except4"
    /\ blinks' = Append(blinks, Blink(SlowDelay, 3))
    /\ led_writes' = ErrorWrites4(3)
    /\ led_top' = ErrorWrites4(3)[Len(ErrorWrites4(3))].top
    /\ led_bottom' = ErrorWrites4(3)[Len(ErrorWrites4(3))].bottom
    /\ pc' = "is_debug4"
    /\ UNCHANGED <<unused4, reset_cause, debug_pin, sta_connected, exc, steps,
                   polls, requests, debug_seen, boots>>

\* run: if not is_debug()
IsDebug4 ==
    /\ pc = "is_debug4"
    /\ debug_seen' = is_debug
    /\ pc' = IF is_debug THEN "exit4" ELSE "deepsleep4"
    /\ UNCHANGED <<unused4, reset_cause, debug_pin, sta_connected, led_top,
                   led_bottom, led_writes, exc, steps, blinks, polls, requests,
                   boots>>

\* run: machine.deepsleep()
Deepsleep4 ==
    /\ pc = "deepsleep4"
    /\ pc' = "asleep4"
    /\ UNCHANGED <<unused4, reset_cause, debug_pin, sta_connected, led_top,
                   led_bottom, led_writes, exc, steps, blinks, polls, requests,
                   debug_seen, boots>>

\* the button resets the sleeping machine, which starts the program again
Wake4 ==
    /\ pc = "asleep4"
    /\ boots < MaxBoots
    /\ boots' = boots + 1
    /\ reset_cause' = "DEEPSLEEP_RESET"
    /\ pc' = "run4"
    /\ exc' = "none"
    /\ steps' = <<>>
    /\ blinks' = <<>>
    /\ polls' = 0
    /\ requests' = <<>>
    /\ debug_seen' = FALSE
    /\ led_writes' = <<>>
    /\ led_top' \in Levels
    /\ led_bottom' \in Levels
    /\ sta_connected' \in BOOLEAN
    /\ UNCHANGED <<unused4, debug_pin>>

Ch4Next ==
    \/ ToggleDebugPin
    \/ WifiChange
    \/ Run4
    \/ ConnectWifi4
    \/ WifiPoll4
    \/ WifiSleep4
    \/ CallWebhook4
    \/ Except4
    \/ IsDebug4
    \/ Deepsleep4
    \/ Wake4

Ch4Spec == Ch4Init /\ [][Ch4Next]_vars

\* ---------------------------------------------------------------------- C21
C21_State ==
    /\ (steps # <<>> \/ requests # <<>> \/ polls > 0
        \/ pc \in {"connect_wifi4", "wifi_poll4", "wifi_sleep4", "call_webhook4", "except4"})
          => reset_cause = "DEEPSLEEP_RESET"
    /\ IsPrefix(steps, <<"connect", "webhook">>)
    /\ Len(requests) <= 1
    /\ (exc # "none" /\ pc # "except4") =>
          /\ blinks = <<[delay |-> 500, times |-> 3]>>
          /\ led_writes = <<[top |-> 1, bottom |-> 0], [top |-> 0, bottom |-> 1],
                            [top |-> 1, bottom |-> 0], [top |-> 0, bottom |-> 1],
                            [top |-> 1, bottom |-> 0], [top |-> 0, bottom |-> 1],
                            [top |-> 1, bottom |-> 1]>>
          /\ led_top = 1
          /\ led_bottom = 1
    /\ exc = "none" => blinks = <<>>
    /\ pc \in {"deepsleep4", "asleep4"} => ~debug_seen
    /\ pc = "exit4" => debug_seen

C21_Step ==
    /\ (pc = "run4" /\ pc' # pc)
          => pc' = IF reset_cause = "DEEPSLEEP_RESET" THEN "connect_wifi4" ELSE "is_debug4"
    /\ (pc = "except4" /\ pc' # pc) => pc' = "is_debug4"
    /\ (pc = "call_webhook4" /\ pc' # pc) => pc' \in {"is_debug4", "except4"}
    /\ (pc = "is_debug4" /\ pc' # pc)
          => pc' = IF debug_pin = 0 THEN "exit4" ELSE "deepsleep4"
    /\ (pc' \in {"exit4", "deepsleep4"} /\ pc' # pc) => pc = "is_debug4"
    /\ (pc' = "asleep4" /\ pc' # pc) => pc = "deepsleep4"
    /\ pc = "exit4" => pc' = "exit4"

\* C21: chapter4 connects to wifi and invokes the webhook only when the reset
\* cause is a wake from deep sleep, the webhook after the connect; for any
\* other reset cause there is no network activity.  Whether the webhook step
\* was skipped, succeeded or failed (a failure blinks the error pattern 3
\* times and leaves both LED pins on), run then tests the debug toggle and
\* enters deep sleep if and only if the toggle is not asserted.
C21_WebhookOnWake == [](C21_State) /\ [][C21_Step]_vars

\* woken from deep sleep, the webhook failed on its status code, the error
\* was blinked, debug was not asserted and the machine sleeps again
C21_Witness ==
    /\ reset_cause = "DEEPSLEEP_RESET"
    /\ pc = "asleep4"
    /\ exc = "status"
    /\ steps = <<"connect", "webhook">>
    /\ led_top = 1
    /\ led_bottom = 1
    /\ ~debug_seen

\* ===================================================== chapter3/main.py
\* The blinking LEDs: blink() of chapter3, a statement at a time, with the
\* button as the environment.  debug_pin is the level of the button's pin
\* (D5, the pin of the later chapters' debug toggle), led_top and led_bottom
\* are the levels of led and led2, polls counts the samples of the button
\* (exactly up to MaxPolls; MaxPolls + 1 stands for more), cycles the
\* completed periods (exactly up to MaxCycles), steps the statements of the
\* loop body executed since the last sample, and debug_seen tells that the
\* last sample found the button pressed.

\* the variables chapter3 does not use
unused3 == <<config, cloud_pin, sta_connected, led_writes, reset_cause,
             send_data_to_cloud, temperature, humidity, exc, blinks, cfg_reads,
             rendered, requests, rtc_alarm, sleeps, boots>>

Ch3Init ==
    /\ config = [DEEP_SLEEP |-> FALSE, LOG_INTERVAL |-> 10, FAHRENHEIT |-> FALSE,
                 HAS_SEND_PIN |-> FALSE]
    /\ pc = "blink3"
    /\ debug_pin \in Levels
    /\ led_top \in Levels
    /\ led_bottom \in Levels
    /\ reset_cause = "PWRON_RESET"
    /\ sta_connected = FALSE
    /\ led_writes = <<>>
    /\ cloud_pin = 1
    /\ send_data_to_cloud = FALSE
    /\ temperature = 0
    /\ humidity = 0
    /\ exc = "none"
    /\ steps = <<>>
    /\ blinks = <<>>
    /\ polls = 0
    /\ cfg_reads = 0
    /\ rendered = "none"
    /\ requests = <<>>
    /\ debug_seen = FALSE
    /\ rtc_alarm = 0
    /\ cycles = 0
    /\ sleeps = 0
    /\ boots = 1

\* blink: the three Pin objects
Blink3 ==
    /\ pc = "blink3"
    /\ pc' = "while3"
    /\ UNCHANGED <<unused3, debug_pin, led_top, led_bottom, steps, polls, cycles,
                   debug_seen>>

\* while button.value()
While3 ==
    /\ pc = "while3"
    /\ polls' = IF polls <= MaxPolls THEN polls + 1 ELSE polls
    /\ debug_seen' = (debug_pin = 0)
    /\ steps' = <<>>
    /\ pc' = IF debug_pin # 0 THEN "led_on3" ELSE "leds_off3"
    /\ UNCHANGED <<unused3, debug_pin, led_top, led_bottom, cycles>>

\* led.on()
LedOn3 ==
    /\ pc = "led_on3"
    /\ pc' = "led2_off3"
    /\ steps' = Append(steps, "led.on")
    /\ led_top' = 1
    /\ UNCHANGED <<unused3, debug_pin, polls, cycles, debug_seen, led_bottom>>

\* variant of Led2Off3: the second LED is driven like the first
Led2Off3_On ==
    /\ pc = "led2_off3"
    /\ pc' = "sleep_a3"
    /\ steps' = Append(steps, "led2.off")
    /\ led_bottom' = 1
    /\ UNCHANGED <<unused3, debug_pin, polls, cycles, debug_seen, led_top>>

\* led2.off()
Led2Off3 ==
    /\ pc = "led2_off3"
    /\ pc' = "sleep_a3"
    /\ steps' = Append(steps, "led2.off")
    /\ led_bottom' = 0
    /\ UNCHANGED <<unused3, debug_pin, polls, cycles, debug_seen, led_top>>

\* time.sleep(0.5)
SleepA3 ==
    /\ pc = "sleep_a3"
    /\ pc' = "led_off3"
    /\ steps' = Append(steps, "sleep")
    /\ UNCHANGED <<unused3, debug_pin, polls, cycles, debug_seen, led_top, led_bottom>>

\* led.off()
LedOff3 ==
    /\ pc = "led_off3"
    /\ pc' = "led2_on3"
    /\ steps' = Append(steps, "led.off")
    /\ led_top' = 0
    /\ UNCHANGED <<unused3, debug_pin, polls, cycles, debug_seen, led_bottom>>

\* led2.on()
Led2On3 ==
    /\ pc = "led2_on3"
    /\ pc' = "sleep_b3"
    /\ steps' = Append(steps, "led2.on")
    /\ led_bottom' = 1
    /\ UNCHANGED <<unused3, debug_pin, polls, cycles, debug_seen, led_top>>

\* time.sleep(0.5), the end of a period
SleepB3 ==
    /\ pc = "sleep_b3"
    /\ pc' = "while3"
    /\ steps' = Append(steps, "sleep")
    /\ cycles' = IF cycles < MaxCycles THEN cycles + 1 ELSE cycles
    /\ UNCHANGED <<unused3, debug_pin, led_top, led_bottom, polls, debug_seen>>

\* after the loop: led.on()
LedsOff3 ==
    /\ pc = "leds_off3"
    /\ pc' = "led2_final3"
    /\ steps' = Append(steps, "led.on")
    /\ led_top' = 1
    /\ UNCHANGED <<unused3, debug_pin, polls, cycles, debug_seen, led_bottom>>

\* after the loop: led2.on()
Led2Final3 ==
    /\ pc = "led2_final3"
    /\ pc' = "done3"
    /\ steps' = Append(steps, "led2.on")
    /\ led_bottom' = 1
    /\ UNCHANGED <<unused3, debug_pin, polls, cycles, debug_seen, led_top>>

Ch3Program ==
    \/ Blink3
    \/ While3
    \/ LedOn3
    \/ Led2Off3
    \/ SleepA3
    \/ LedOff3
    \/ Led2On3
    \/ SleepB3
    \/ LedsOff3
    \/ Led2Final3

Ch3Next ==
    \/ ToggleDebugPin
    \/ Ch3Program

Ch3Spec == Ch3Init /\ [][Ch3Next]_vars

\* the interpreter keeps executing statements
Ch3FairSpec == Ch3Init /\ [][Ch3Next]_vars /\ WF_vars(Ch3Program)

\* ---------------------------------------------------------------------- C22
\* the positions of the loop body
LoopPcs3 == {"led_on3", "led2_off3", "sleep_a3", "led_off3", "led2_on3", "sleep_b3"}

\* the positions after the loop
AfterLoopPcs3 == {"leds_off3", "led2_final3", "done3"}

Period3 == <<"led.on", "led2.off", "sleep", "led.off", "led2.on", "sleep">>

\* C22 as stated: inside the blink loop, once both pins have been written,
\* the two LEDs are never both lit (both pins low).
C22_AsStated ==
    (pc \in {"sleep_a3", "led_off3", "led2_on3", "sleep_b3"} \/ (pc \in LoopPcs3 /\ cycles > 0))
        => ~(led_top = 0 /\ led_bottom = 0)

C22_State ==
    /\ pc = "sleep_a3" => (led_top = 1 /\ led_bottom = 0)
    /\ pc = "sleep_b3" => (led_top = 0 /\ led_bottom = 1)
    /\ pc = "led2_on3" => (led_top = 0 /\ led_bottom = 0)
    /\ (pc = "led2_off3" /\ cycles > 0) => (led_top = 1 /\ led_bottom = 1)
    /\ pc \in LoopPcs3 => (~debug_seen /\ IsPrefix(steps, Period3))
    /\ (pc = "while3" /\ polls > 0) => steps = Period3
    /\ pc \in AfterLoopPcs3 => debug_seen
    /\ pc = "done3" => (led_top = 1 /\ led_bottom = 1)

C22_Step ==
    /\ polls' # polls => pc = "while3"
    /\ (pc = "while3" /\ pc' # pc)
          => pc' = IF debug_pin = 0 THEN "leds_off3" ELSE "led_on3"
    /\ (pc' \in AfterLoopPcs3 /\ pc \notin AfterLoopPcs3) => (pc = "while3" /\ debug_pin = 0)
    /\ pc = "done3" => pc' = "done3"

\* C22 (amended): in chapter3's blink loop the pins are at opposite levels
\* during both sleeps of a period (top high and bottom low, then top low and
\* bottom high), so exactly one LED is lit while the program sleeps; the pins
\* are written by consecutive statements, so between led.off() and led2.on()
\* both pins are low (both LEDs lit) and, from the second period on, between
\* led.on() and led2.off() both are high.  The button is sampled only at the
\* top of each full period; once a sample finds it pressed (low) the loop
\* ends and both pins are set on, which turns both LEDs off; while the button
\* stays released the loop never ends.
C22_BlinkLoop ==
    /\ [](C22_State)
    /\ [][C22_Step]_vars
    /\ (pc \in AfterLoopPcs3) ~> [](pc = "done3" /\ led_top = 1 /\ led_bottom = 1)
    /\ [](debug_pin = 1) => [](pc \notin AfterLoopPcs3)

\* the button was pressed after at least one full period: the loop has ended
\* and both pins are on
C22_Witness ==
    /\ pc = "done3"
    /\ cycles > 0
    /\ debug_seen
    /\ led_top = 1
    /\ led_bottom = 1

====
